---- MODULE Spec2Model ----
(***************************************************************************)
(* Model of the instrumented allocation facade of src/Common/memory.h:     *)
(* newImpl, newNoExcept, deleteImpl, deleteSized, getActualAllocationSize, *)
(* trackMemory and untrackMemory, over the two backend builds              *)
(* (USE_JEMALLOC), with or without the sampling guard allocator            *)
(* (USE_GWP_ASAN), with or without malloc_usable_size (_GNU_SOURCE).       *)
(*                                                                         *)
(* Spec   : every facade function is one atomic action (one caller).       *)
(* SpecMT : the allocation and deallocation entries run statement by       *)
(*          statement in several threads (profile counters).               *)
(***************************************************************************)
EXTENDS Integers, FiniteSets, Sequences, TLC

VARIABLES
    USE_JEMALLOC,   \* build flag: the arena backend (je_*) is linked in
    USE_GWP_ASAN,   \* build flag: the sampling guard allocator is compiled in
    GNU_SOURCE,     \* build flag: malloc_usable_size() is available
    heap,           \* address -> allocation record (owner "none" = not allocated)
    tracker,        \* CurrentMemoryTracker: bytes charged and not released
    events,         \* ProfileEvents: the three GWPAsan* counters
    pending,        \* the request trackMemory charged and no allocation has taken yet
    last,           \* what the last facade call did (its inputs, path and result)
    ops,            \* facade calls made so far
    pc,             \* SpecMT: the statement each thread is at
    loc,            \* SpecMT: each thread's locals
    nSampled        \* SpecMT: calls for which shouldSample() returned true

vars == <<USE_JEMALLOC, USE_GWP_ASAN, GNU_SOURCE, heap, tracker, events,
          pending, last, ops, pc, loc, nSampled>>

build == <<USE_JEMALLOC, USE_GWP_ASAN, GNU_SOURCE>>
mtVars == <<pc, loc, nSampled>>

----------------------------------------------------------------------------
(* Bounds *)

MaxPtrs == 2        \* addresses the two allocators can hand out
MaxOps == 3         \* facade calls of one run of Spec
MaxCalls == 2       \* calls each thread of SpecMT starts

(* The backend's size computation, scaled down: sizes are rounded up to a   *)
(* multiple of Quantum; a request above LargeMaxClass cannot be served.     *)
Quantum == 2
LargeMaxClass == 4

(* Request sizes: zero, one that is rounded up, and one beyond the largest  *)
(* the backend serves.                                                      *)
Sizes == {0, 1, LargeMaxClass + 1}
Aligns == {0, 2 * Quantum}      \* 0: the overload without std::align_val_t
Ptrs == 1..MaxPtrs
nullptr == 0
Threads == {1, 2}

Max(a, b) == IF a >= b THEN a ELSE b
RoundUp(n, q) == ((n + q - 1) \div q) * q

----------------------------------------------------------------------------
(* The backend allocator and the guard allocator, as the facade sees them *)

(* alignToSizeT: the alignment as a number *)
alignToSizeT(align) == align

(* jemalloc's size computation for (size, flags): the size class, raised to *)
(* the alignment; above the largest class there is no size to report.       *)
usize(size, align) ==
    IF align = 0 THEN RoundUp(size, Quantum)
    ELSE RoundUp(RoundUp(size, Quantum), alignToSizeT(align))

(* je_nallocx(size, flags), called with size != 0: the real size mallocx    *)
(* would commit, or 0 when the request exceeds the largest size class.      *)
je_nallocx(size, align) ==
    IF usize(size, align) > LargeMaxClass THEN 0 ELSE usize(size, align)

(* What malloc/aligned_alloc/je_malloc/je_aligned_alloc commit for a        *)
(* request they serve: a zero-size request is served as the smallest        *)
(* allocation. 0 stands for a null result.                                  *)
backend_alloc(size, align, backendOk) ==
    IF backendOk /\ usize(Max(size, 1), align) <= LargeMaxClass
    THEN usize(Max(size, 1), align)
    ELSE 0

(* GWPAsan::GuardedAlloc.getSize(ptr): the size the guarded slot was asked  *)
(* for; the guard allocator serves a zero-size request as one byte.         *)
GuardedAlloc_getSize(ptr) == Max(heap[ptr].size, 1)

(* GWPAsan::GuardedAlloc.pointerIsMine(ptr) *)
pointerIsMine(ptr) == ptr /= nullptr /\ heap[ptr].owner = "guard"

(* je_sallocx(ptr, flags) / malloc_usable_size(ptr): the committed size *)
je_sallocx(ptr) == heap[ptr].usable
malloc_usable_size(ptr) == IF ptr = nullptr THEN 0 ELSE heap[ptr].usable

NoEvents == [GWPAsanAllocateSuccess |-> 0, GWPAsanAllocateFailed |-> 0, GWPAsanFree |-> 0]
Increment(ev, name) == [ev EXCEPT ![name] = @ + 1]
AddEvents(a, b) == [n \in DOMAIN a |-> a[n] + b[n]]

FreeCell == [owner |-> "none", size |-> 0, align |-> 0, usable |-> 0,
             charged |-> -1, untracked |-> FALSE]
NoPending == [size |-> 0, align |-> 0, charged |-> -1]

FreeAddrs == {p \in Ptrs : heap[p].owner = "none"}
LiveAddrs == {p \in Ptrs : heap[p].owner /= "none"}
NextAddr == CHOOSE p \in FreeAddrs : \A q \in FreeAddrs : p <= q

----------------------------------------------------------------------------
(* The facade functions, as functions of their inputs and of the answers    *)
(* of the allocators (sample: shouldSample(); guardOk: the guarded allocate *)
(* found a slot; backendOk: the backend had memory; trackerOk: the tracker  *)
(* call did not fail).                                                      *)

(* sampledEvent with the success branch falling through to the failure     *)
(* increment (the return after the success increment lost)                  *)
sampledEvent_FallsThrough(guardOk) ==
    IF guardOk
    THEN Increment(Increment(NoEvents, "GWPAsanAllocateSuccess"), "GWPAsanAllocateFailed")
    ELSE Increment(NoEvents, "GWPAsanAllocateFailed")

(* The profile event of one guarded allocation attempt *)
sampledEvent(guardOk) ==
    IF guardOk THEN Increment(NoEvents, "GWPAsanAllocateSuccess")
    ELSE Increment(NoEvents, "GWPAsanAllocateFailed")

(* newImplResult with the throw lost: the null pointer is returned *)
newImplResult_NoThrow(usable) == "return"

(* How newImpl ends once the backend answered: the pointer, or bad_alloc *)
newImplResult(usable) == IF usable /= 0 THEN "return" ELSE "bad_alloc"

(* newImpl(size, align...) of both builds *)
newImpl(size, align, sample, guardOk, backendOk) ==
    IF USE_JEMALLOC THEN
        LET usable == backend_alloc(size, align, backendOk) IN
        [asked |-> FALSE, sample |-> FALSE, guardTried |-> FALSE, guardOk |-> FALSE,
         backendCalled |-> TRUE,
         owner |-> IF usable /= 0 THEN "backend" ELSE "none", usable |-> usable,
         events |-> NoEvents, outcome |-> newImplResult(usable)]
    ELSE IF USE_GWP_ASAN /\ sample /\ guardOk THEN
        [asked |-> TRUE, sample |-> TRUE, guardTried |-> TRUE, guardOk |-> TRUE,
         backendCalled |-> FALSE,
         owner |-> "guard", usable |-> Max(size, 1),
         events |-> sampledEvent(TRUE), outcome |-> "return"]
    ELSE
        LET usable == backend_alloc(size, align, backendOk) IN
        [asked |-> USE_GWP_ASAN, sample |-> USE_GWP_ASAN /\ sample,
         guardTried |-> USE_GWP_ASAN /\ sample, guardOk |-> FALSE,
         backendCalled |-> TRUE,
         owner |-> IF usable /= 0 THEN "backend" ELSE "none", usable |-> usable,
         events |-> IF USE_GWP_ASAN /\ sample THEN sampledEvent(FALSE) ELSE NoEvents,
         outcome |-> newImplResult(usable)]

(* newNoExceptResult ending as newImpl does, with a throw on a null result *)
newNoExceptResult_Throws(usable) == IF usable /= 0 THEN "return" ELSE "bad_alloc"

(* How newNoExcept ends once the backend answered: it returns what it got *)
newNoExceptResult(usable) == "return"

(* newNoExcept(size) and newNoExcept(size, align) of both builds *)
newNoExcept(size, align, sample, guardOk, backendOk) ==
    IF USE_JEMALLOC THEN
        LET usable == backend_alloc(size, align, backendOk) IN
        [asked |-> FALSE, sample |-> FALSE, guardTried |-> FALSE, guardOk |-> FALSE,
         backendCalled |-> TRUE,
         owner |-> IF usable /= 0 THEN "backend" ELSE "none", usable |-> usable,
         events |-> NoEvents, outcome |-> newNoExceptResult(usable)]
    ELSE IF USE_GWP_ASAN /\ sample /\ guardOk THEN
        [asked |-> TRUE, sample |-> TRUE, guardTried |-> TRUE, guardOk |-> TRUE,
         backendCalled |-> FALSE,
         owner |-> "guard", usable |-> Max(size, 1),
         events |-> sampledEvent(TRUE), outcome |-> "return"]
    ELSE
        LET usable == backend_alloc(size, align, backendOk) IN
        [asked |-> USE_GWP_ASAN, sample |-> USE_GWP_ASAN /\ sample,
         guardTried |-> USE_GWP_ASAN /\ sample, guardOk |-> FALSE,
         backendCalled |-> TRUE,
         owner |-> IF usable /= 0 THEN "backend" ELSE "none", usable |-> usable,
         events |-> IF USE_GWP_ASAN /\ sample THEN sampledEvent(FALSE) ELSE NoEvents,
         outcome |-> newNoExceptResult(usable)]

(* deleteImpl(ptr) of both builds: who was asked, who freed *)
deleteImpl(ptr) ==
    IF USE_JEMALLOC THEN
        [asked |-> FALSE, freedBy |-> "backend", events |-> NoEvents]
    ELSE IF USE_GWP_ASAN /\ pointerIsMine(ptr) THEN
        [asked |-> TRUE, freedBy |-> "guard",
         events |-> Increment(NoEvents, "GWPAsanFree")]
    ELSE
        [asked |-> USE_GWP_ASAN, freedBy |-> "backend", events |-> NoEvents]

(* deleteSized(ptr, size, align...) of both builds *)
deleteSized(ptr, size, align) ==
    IF USE_JEMALLOC /\ ptr = nullptr THEN
        [asked |-> FALSE, freedBy |-> "none", events |-> NoEvents]
    ELSE IF USE_GWP_ASAN /\ pointerIsMine(ptr) THEN
        [asked |-> TRUE, freedBy |-> "guard",
         events |-> Increment(NoEvents, "GWPAsanFree")]
    ELSE
        [asked |-> USE_GWP_ASAN, freedBy |-> "backend", events |-> NoEvents]

(* getActualAllocationSize without the backend's size computation *)
getActualAllocationSize_Nominal(size, align) == size

(* getActualAllocationSize(size, align...) *)
getActualAllocationSize(size, align) ==
    IF USE_JEMALLOC /\ size /= 0 THEN je_nallocx(size, align) ELSE size

(* trackMemory(size, trace, align...): the size it passes to allocNoThrow   *)
(* and the size it returns. allocNoThrow does not fail.                     *)
trackMemory(size, align) ==
    LET actual_size == getActualAllocationSize(size, align) IN
    [amount |-> actual_size, value |-> actual_size, applied |-> TRUE,
     outcome |-> "return"]

(* untrackActualSize trusting the declared size in the jemalloc build too *)
untrackActualSize_DeclaredFirst(ptr, size, align) ==
    IF size /= 0 THEN size
    ELSE IF USE_JEMALLOC THEN (IF ptr /= nullptr THEN je_sallocx(ptr) ELSE 0)
    ELSE IF GNU_SOURCE THEN malloc_usable_size(ptr)
    ELSE 0

(* The size untrackMemory resolves inside its try block for a pointer the   *)
(* backend owns                                                             *)
untrackActualSize(ptr, size, align) ==
    IF USE_JEMALLOC THEN (IF ptr /= nullptr THEN je_sallocx(ptr) ELSE 0)
    ELSE IF size /= 0 THEN size
    ELSE IF GNU_SOURCE THEN malloc_usable_size(ptr)
    ELSE 0

(* untrackMemory(ptr, trace, size, align...) noexcept: the size handed to   *)
(* CurrentMemoryTracker::free, whether the tracker took it, the size        *)
(* returned, and how the call ends. A failure of the tracker inside the try *)
(* block is swallowed; outside of it, it leaves a noexcept function.        *)
untrackMemory(ptr, size, align, trackerOk) ==
    IF USE_GWP_ASAN /\ pointerIsMine(ptr) THEN
        LET sz == IF size = 0 THEN GuardedAlloc_getSize(ptr) ELSE size IN
        [asked |-> TRUE, mine |-> TRUE, amount |-> sz, applied |-> trackerOk,
         value |-> IF trackerOk THEN sz ELSE 0,
         outcome |-> IF trackerOk THEN "return" ELSE "terminate"]
    ELSE
        LET actual_size == untrackActualSize(ptr, size, align) IN
        [asked |-> USE_GWP_ASAN, mine |-> FALSE, amount |-> actual_size,
         applied |-> trackerOk, value |-> actual_size, outcome |-> "return"]

----------------------------------------------------------------------------
(* Spec: one caller, every facade call one action *)

NoCall == [op |-> "none", size |-> 0, align |-> 0, ptr |-> nullptr,
           outcome |-> "return", value |-> 0,
           asked |-> FALSE, sample |-> FALSE, guardTried |-> FALSE, guardOk |-> FALSE,
           backendCalled |-> FALSE, owner |-> "none", freedBy |-> "none",
           amount |-> 0, applied |-> FALSE, charged |-> -1, usable |-> 0, delta |-> 0]

IdleThreads ==
    /\ pc = [t \in Threads |-> "idle"]
    /\ loc = [t \in Threads |-> [entry |-> "none", ptr |-> nullptr, sampled |-> FALSE,
                                 incs |-> 0, calls |-> 0]]
    /\ nSampled = 0

Init ==
    /\ USE_JEMALLOC \in BOOLEAN
    /\ USE_GWP_ASAN \in BOOLEAN
    /\ GNU_SOURCE \in BOOLEAN
    /\ USE_JEMALLOC => GNU_SOURCE      \* only the default-backend branch reads _GNU_SOURCE
    /\ heap = [p \in Ptrs |-> FreeCell]
    /\ tracker = 0
    /\ events = NoEvents
    /\ pending = NoPending
    /\ last = NoCall
    /\ ops = 0
    /\ IdleThreads

Step == ops < MaxOps /\ ops' = ops + 1

(* trackMemory(size, trace, align...) *)
TrackMemory(size, align) ==
    /\ Step
    /\ pending.charged = -1
    /\ LET r == trackMemory(size, align) IN
        /\ tracker' = tracker + r.amount
        /\ pending' = [size |-> size, align |-> align, charged |-> r.amount]
        /\ last' = [NoCall EXCEPT !.op = "trackMemory", !.size = size, !.align = align,
                        !.outcome = r.outcome, !.value = r.value, !.amount = r.amount,
                        !.applied = r.applied, !.delta = r.amount]
    /\ UNCHANGED <<build, heap, events, mtVars>>

(* An allocation entry takes the request trackMemory charged, when there is one *)
TakesPending(size, align) ==
    pending.charged /= -1 => (size = pending.size /\ align = pending.align)

Allocate(op, r, size, align) ==
    /\ Step
    /\ FreeAddrs /= {}
    /\ TakesPending(size, align)
    /\ LET p == IF r.owner = "none" THEN nullptr ELSE NextAddr IN
        /\ heap' = IF p = nullptr THEN heap
                   ELSE [heap EXCEPT ![p] = [owner |-> r.owner, size |-> size,
                                             align |-> align, usable |-> r.usable,
                                             charged |-> pending.charged,
                                             untracked |-> FALSE]]
        /\ last' = [NoCall EXCEPT !.op = op, !.size = size, !.align = align, !.ptr = p,
                        !.outcome = r.outcome, !.asked = r.asked, !.sample = r.sample,
                        !.guardTried = r.guardTried, !.guardOk = r.guardOk,
                        !.backendCalled = r.backendCalled, !.owner = r.owner,
                        !.usable = r.usable, !.charged = pending.charged]
    /\ events' = AddEvents(events, r.events)
    /\ pending' = NoPending
    /\ UNCHANGED <<build, tracker, mtVars>>

(* newImpl(size, align...) *)
NewImpl(size, align, sample, guardOk, backendOk) ==
    Allocate("newImpl", newImpl(size, align, sample, guardOk, backendOk), size, align)

(* newNoExcept(size) / newNoExcept(size, align) *)
NewNoExcept(size, align, sample, guardOk, backendOk) ==
    Allocate("newNoExcept", newNoExcept(size, align, sample, guardOk, backendOk), size, align)

Deallocate(op, r, ptr, size, align) ==
    /\ Step
    /\ heap' = IF ptr = nullptr THEN heap ELSE [heap EXCEPT ![ptr] = FreeCell]
    /\ events' = AddEvents(events, r.events)
    /\ last' = [NoCall EXCEPT !.op = op, !.size = size, !.align = align, !.ptr = ptr,
                    !.asked = r.asked, !.freedBy = r.freedBy,
                    !.owner = IF ptr = nullptr THEN "none" ELSE heap[ptr].owner]
    /\ UNCHANGED <<build, tracker, pending, mtVars>>

(* deleteImpl(ptr) *)
DeleteImpl(ptr) ==
    Deallocate("deleteImpl", deleteImpl(ptr), ptr, 0, 0)

(* deleteSized(ptr, size, align...): the caller declares the size and the   *)
(* alignment it asked for                                                   *)
DeleteSized(ptr) ==
    LET size == IF ptr = nullptr THEN 0 ELSE heap[ptr].size
        align == IF ptr = nullptr THEN 0 ELSE heap[ptr].align IN
    Deallocate("deleteSized", deleteSized(ptr, size, align), ptr, size, align)

(* untrackMemory(ptr, trace, size, align...): size is 0 (not declared) or   *)
(* the size the caller asked for                                            *)
UntrackMemory(ptr, size, trackerOk) ==
    /\ Step
    /\ ptr /= nullptr => ~heap[ptr].untracked
    /\ size \in {0, IF ptr = nullptr THEN 0 ELSE heap[ptr].size}
    /\ LET align == IF ptr = nullptr THEN 0 ELSE heap[ptr].align
           r == untrackMemory(ptr, size, align, trackerOk) IN
        /\ tracker' = IF r.applied THEN tracker - r.amount ELSE tracker
        /\ last' = [NoCall EXCEPT !.op = "untrackMemory", !.size = size, !.align = align,
                        !.ptr = ptr, !.outcome = r.outcome, !.value = r.value,
                        !.asked = r.asked, !.amount = r.amount, !.applied = r.applied,
                        !.owner = IF ptr = nullptr THEN "none" ELSE heap[ptr].owner,
                        !.usable = IF ptr = nullptr THEN 0 ELSE heap[ptr].usable,
                        !.charged = IF ptr = nullptr THEN -1 ELSE heap[ptr].charged,
                        !.delta = IF r.applied THEN 0 - r.amount ELSE 0]
    /\ heap' = IF ptr = nullptr THEN heap ELSE [heap EXCEPT ![ptr].untracked = TRUE]
    /\ UNCHANGED <<build, events, pending, mtVars>>

(* The answers of a call the code makes only under a condition: both when   *)
(* the call is made, one (never read) when it is not                        *)
Answers(called) == IF called THEN BOOLEAN ELSE {FALSE}
SamplingConsulted == USE_GWP_ASAN /\ ~USE_JEMALLOC

Next ==
    \/ \E size \in Sizes, align \in Aligns : TrackMemory(size, align)
    \/ \E size \in Sizes, align \in Aligns, sample \in Answers(SamplingConsulted) :
        \E guardOk \in Answers(sample), backendOk \in BOOLEAN :
            NewImpl(size, align, sample, guardOk, backendOk)
    \/ \E size \in Sizes, align \in Aligns, sample \in Answers(SamplingConsulted) :
        \E guardOk \in Answers(sample), backendOk \in BOOLEAN :
            NewNoExcept(size, align, sample, guardOk, backendOk)
    \/ \E ptr \in LiveAddrs \cup {nullptr} : DeleteImpl(ptr)
    \/ \E ptr \in LiveAddrs \cup {nullptr} : DeleteSized(ptr)
    \/ \E ptr \in LiveAddrs \cup {nullptr}, size \in Sizes, trackerOk \in BOOLEAN :
            UntrackMemory(ptr, size, trackerOk)

Spec == Init /\ [][Next]_vars

----------------------------------------------------------------------------
(* SpecMT: the allocation and deallocation entries, one statement a step,   *)
(* in several threads. A pointer is in the hands of the thread that is      *)
(* allocating or freeing it; any thread may free a pointer that was         *)
(* returned.                                                                *)

MTCell(owner) == [FreeCell EXCEPT !.owner = owner, !.size = 1, !.usable = Quantum]
Held == {loc[t].ptr : t \in {u \in Threads : pc[u] /= "idle"}}
Freeable == LiveAddrs \ Held
SamplingCompiled(entry) ==
    IF entry \in {"newImpl", "newNoExcept"} THEN USE_GWP_ASAN /\ ~USE_JEMALLOC
    ELSE IF entry = "deleteImpl" THEN USE_GWP_ASAN /\ ~USE_JEMALLOC
    ELSE USE_GWP_ASAN

MTUnchanged == UNCHANGED <<build, tracker, pending, last, ops>>

(* A thread enters newImpl or newNoExcept *)
EnterNew(t, entry) ==
    /\ pc[t] = "idle"
    /\ loc[t].calls < MaxCalls
    /\ loc' = [loc EXCEPT ![t] = [entry |-> entry, ptr |-> nullptr, sampled |-> FALSE,
                                  incs |-> 0, calls |-> @.calls + 1]]
    /\ pc' = [pc EXCEPT ![t] = IF SamplingCompiled(entry) THEN "shouldSample" ELSE "backend"]
    /\ UNCHANGED <<heap, events, nSampled>>
    /\ MTUnchanged

(* if (unlikely(GWPAsan::shouldSample())) *)
ShouldSample(t, sample) ==
    /\ pc[t] = "shouldSample"
    /\ loc' = [loc EXCEPT ![t].sampled = sample]
    /\ nSampled' = IF sample THEN nSampled + 1 ELSE nSampled
    /\ pc' = [pc EXCEPT ![t] = IF sample THEN "allocate" ELSE "backend"]
    /\ UNCHANGED <<heap, events>>
    /\ MTUnchanged

(* if (void * ptr = GWPAsan::GuardedAlloc.allocate(size ...)) *)
GuardedAllocate(t, guardOk) ==
    /\ pc[t] = "allocate"
    /\ LET p == IF guardOk /\ FreeAddrs /= {} THEN NextAddr ELSE nullptr IN
        /\ loc' = [loc EXCEPT ![t].ptr = p]
        /\ heap' = IF p = nullptr THEN heap ELSE [heap EXCEPT ![p] = MTCell("guard")]
    /\ pc' = [pc EXCEPT ![t] = "increment"]
    /\ UNCHANGED <<events, nSampled>>
    /\ MTUnchanged

(* ProfileEvents::increment(GWPAsanAllocateSuccess); return ptr;  or        *)
(* ProfileEvents::increment(GWPAsanAllocateFailed); and on to the backend   *)
IncrementSampled(t) ==
    /\ pc[t] = "increment"
    /\ LET ev == sampledEvent(loc[t].ptr /= nullptr) IN
        /\ events' = AddEvents(events, ev)
        /\ loc' = [loc EXCEPT ![t].incs = @ + ev.GWPAsanAllocateSuccess
                                            + ev.GWPAsanAllocateFailed]
    /\ pc' = [pc EXCEPT ![t] = IF loc[t].ptr /= nullptr THEN "idle" ELSE "backend"]
    /\ UNCHANGED <<heap, nSampled>>
    /\ MTUnchanged

(* ptr = malloc(size) / aligned_alloc / je_malloc / je_aligned_alloc, and   *)
(* the return or the throw that follows                                     *)
BackendAllocate(t, backendOk) ==
    /\ pc[t] = "backend"
    /\ LET p == IF backendOk /\ FreeAddrs /= {} THEN NextAddr ELSE nullptr IN
        /\ loc' = [loc EXCEPT ![t].ptr = p]
        /\ heap' = IF p = nullptr THEN heap ELSE [heap EXCEPT ![p] = MTCell("backend")]
    /\ pc' = [pc EXCEPT ![t] = "idle"]
    /\ UNCHANGED <<events, nSampled>>
    /\ MTUnchanged

(* A thread enters deleteImpl or deleteSized with a pointer that was returned *)
EnterDelete(t, entry, ptr) ==
    /\ pc[t] = "idle"
    /\ loc[t].calls < MaxCalls
    /\ ptr \in Freeable
    /\ loc' = [loc EXCEPT ![t] = [entry |-> entry, ptr |-> ptr, sampled |-> FALSE,
                                  incs |-> 0, calls |-> @.calls + 1]]
    /\ pc' = [pc EXCEPT ![t] = IF SamplingCompiled(entry) THEN "pointerIsMine" ELSE "free"]
    /\ UNCHANGED <<heap, events, nSampled>>
    /\ MTUnchanged

(* if (unlikely(GWPAsan::GuardedAlloc.pointerIsMine(ptr))) *)
PointerIsMine(t) ==
    /\ pc[t] = "pointerIsMine"
    /\ pc' = [pc EXCEPT ![t] = IF pointerIsMine(loc[t].ptr) THEN "incrementFree" ELSE "free"]
    /\ UNCHANGED <<heap, events, loc, nSampled>>
    /\ MTUnchanged

(* ProfileEvents::increment(ProfileEvents::GWPAsanFree) *)
IncrementFree(t) ==
    /\ pc[t] = "incrementFree"
    /\ events' = Increment(events, "GWPAsanFree")
    /\ pc' = [pc EXCEPT ![t] = "deallocate"]
    /\ UNCHANGED <<heap, loc, nSampled>>
    /\ MTUnchanged

(* GWPAsan::GuardedAlloc.deallocate(ptr); return *)
GuardedDeallocate(t) ==
    /\ pc[t] = "deallocate"
    /\ heap' = [heap EXCEPT ![loc[t].ptr] = FreeCell]
    /\ pc' = [pc EXCEPT ![t] = "idle"]
    /\ UNCHANGED <<events, loc, nSampled>>
    /\ MTUnchanged

(* free(ptr) / je_free(ptr) / je_sdallocx(ptr, size, flags) *)
BackendFree(t) ==
    /\ pc[t] = "free"
    /\ heap' = [heap EXCEPT ![loc[t].ptr] = FreeCell]
    /\ pc' = [pc EXCEPT ![t] = "idle"]
    /\ UNCHANGED <<events, loc, nSampled>>
    /\ MTUnchanged

NextMT ==
    \/ \E t \in Threads, entry \in {"newImpl", "newNoExcept"} : EnterNew(t, entry)
    \/ \E t \in Threads, sample \in BOOLEAN : ShouldSample(t, sample)
    \/ \E t \in Threads, guardOk \in BOOLEAN : GuardedAllocate(t, guardOk)
    \/ \E t \in Threads : IncrementSampled(t)
    \/ \E t \in Threads, backendOk \in BOOLEAN : BackendAllocate(t, backendOk)
    \/ \E t \in Threads, entry \in {"deleteImpl", "deleteSized"}, ptr \in Ptrs :
            EnterDelete(t, entry, ptr)
    \/ \E t \in Threads : PointerIsMine(t)
    \/ \E t \in Threads : IncrementFree(t)
    \/ \E t \in Threads : GuardedDeallocate(t)
    \/ \E t \in Threads : BackendFree(t)

SpecMT == Init /\ [][NextMT]_vars

----------------------------------------------------------------------------
(* Properties *)

IsUntrack == last.op = "untrackMemory"
IsDelete == last.op \in {"deleteImpl", "deleteSized"}

(* C1: in a build whose backend answers precise size queries (jemalloc),    *)
(* the size untrackMemory hands to the tracker for a pointer equals the     *)
(* size trackMemory charged for the request that produced the pointer,      *)
(* with or without a declared size.                                         *)
C1_SizeSymmetry ==
    (USE_JEMALLOC /\ IsUntrack /\ last.ptr /= nullptr /\ last.charged /= -1)
        => last.amount = last.charged

(* C2: with sampling not compiled in, untrackMemory without a declared size *)
(* releases exactly what trackMemory charged for the pointer, so the pair   *)
(* leaves the tracker where it was.                                         *)
C2_MatchedPairNetZero ==
    (~USE_GWP_ASAN /\ IsUntrack /\ last.size = 0 /\ last.ptr /= nullptr
        /\ last.charged /= -1 /\ last.applied)
        => (last.amount = last.charged /\ last.delta = 0 - last.charged)

(* C3: newImpl ends by returning a non-null pointer or by throwing          *)
(* bad_alloc; it never returns null, also after a failed guarded attempt.   *)
C3_NewImplNeverNull ==
    last.op = "newImpl" =>
        \/ last.outcome = "return" /\ last.ptr /= nullptr /\ heap[last.ptr].owner /= "none"
        \/ last.outcome = "bad_alloc" /\ last.ptr = nullptr

(* C3 witness: a sampled guarded attempt failed, the backend failed too,    *)
(* and newImpl threw.                                                       *)
C3_Witness ==
    /\ last.op = "newImpl"
    /\ last.guardTried /\ ~last.guardOk /\ last.backendCalled
    /\ last.outcome = "bad_alloc"

(* C4: newNoExcept never raises: it returns a usable pointer or null, for   *)
(* zero size, backend exhaustion and a failed guarded attempt alike.        *)
C4_NewNoExceptNeverRaises ==
    last.op = "newNoExcept" =>
        /\ last.outcome = "return"
        /\ \/ last.ptr = nullptr
           \/ /\ heap[last.ptr].owner /= "none"
              /\ heap[last.ptr].usable >= Max(last.size, 1)

(* C4 witness: a zero-size request, the guarded attempt failed, the backend *)
(* was exhausted, and newNoExcept returned null.                            *)
C4_Witness ==
    /\ last.op = "newNoExcept"
    /\ last.size = 0
    /\ last.guardTried /\ ~last.guardOk /\ last.backendCalled
    /\ last.outcome = "return" /\ last.ptr = nullptr

(* C5: with sampling compiled in, newNoExcept asks shouldSample in every    *)
(* build and reaches the backend only when shouldSample said no or the      *)
(* guarded allocate returned null.                                          *)
C5_NoExceptOffersGuardFirst ==
    (USE_GWP_ASAN /\ last.op = "newNoExcept") =>
        /\ last.asked
        /\ last.backendCalled => (~last.sample \/ (last.guardTried /\ ~last.guardOk))

(* C6: a pointer is freed by the allocator that produced it, and, with      *)
(* sampling compiled in, every deallocation entry of every build asks       *)
(* pointerIsMine before it frees.                                           *)
C6_DeallocationAsksGuardFirst ==
    (IsDelete /\ last.ptr /= nullptr) =>
        /\ last.freedBy = last.owner
        /\ USE_GWP_ASAN => last.asked

(* C7: counter conservation under interleaving: every call that             *)
(* shouldSample selected increments exactly one of GWPAsanAllocateSuccess   *)
(* and GWPAsanAllocateFailed, once, so their sum is the number of selected  *)
(* calls less those that have not reached their increment; a call that was  *)
(* not selected increments neither; GWPAsanFree never exceeds               *)
(* GWPAsanAllocateSuccess.                                                  *)
AwaitingIncrement ==
    {t \in Threads : loc[t].sampled /\ pc[t] \in {"allocate", "increment"}}
PastSampling(t) ==
    loc[t].entry \in {"newImpl", "newNoExcept"} /\ pc[t] \in {"backend", "idle"}
C7_CounterConservation ==
    /\ events.GWPAsanAllocateSuccess + events.GWPAsanAllocateFailed
            + Cardinality(AwaitingIncrement) = nSampled
    /\ \A t \in Threads :
            /\ loc[t].incs <= 1
            /\ PastSampling(t) => loc[t].incs = (IF loc[t].sampled THEN 1 ELSE 0)
    /\ events.GWPAsanFree <= events.GWPAsanAllocateSuccess

(* C7 witness: two threads were selected, one guarded attempt succeeded and *)
(* one failed, the guarded pointer was freed, and every call has returned.  *)
C7_Witness ==
    /\ \A t \in Threads : pc[t] = "idle"
    /\ nSampled >= 2
    /\ events.GWPAsanAllocateSuccess >= 1
    /\ events.GWPAsanAllocateFailed >= 1
    /\ events.GWPAsanFree >= 1

(* C8: trackMemory and untrackMemory return a size to their caller          *)
(* whatever fails inside them, on the guard path and on the backend path.   *)
C8_AccountingNeverRaises ==
    last.op \in {"trackMemory", "untrackMemory"} => last.outcome = "return"

(* C9 as stated: for a pointer of the backend, untrackMemory releases the   *)
(* declared size whenever one is declared.                                  *)
C9_DeclaredSizePreferred ==
    (IsUntrack /\ last.owner = "backend" /\ last.size /= 0) => last.amount = last.size

(* C9 as amended: for a pointer of the backend, the jemalloc build releases *)
(* the committed size the backend reports, declared size or not; the        *)
(* default build releases the declared size when there is one, the usable   *)
(* size when there is none and malloc_usable_size exists, and 0 otherwise;  *)
(* the tracker goes down by that size unless its call failed.               *)
C9_ReleasedSizeByBuild ==
    (IsUntrack /\ last.owner = "backend") =>
        /\ USE_JEMALLOC => last.amount = last.usable
        /\ (~USE_JEMALLOC /\ last.size /= 0) => last.amount = last.size
        /\ (~USE_JEMALLOC /\ last.size = 0 /\ GNU_SOURCE) => last.amount = last.usable
        /\ (~USE_JEMALLOC /\ last.size = 0 /\ ~GNU_SOURCE) => last.amount = 0
        /\ last.value = last.amount
        /\ last.delta = (IF last.applied THEN 0 - last.amount ELSE 0)

(* C9 witness: the jemalloc build released the committed size of a pointer  *)
(* although a different size was declared.                                  *)
C9_Witness ==
    /\ IsUntrack /\ USE_JEMALLOC /\ last.owner = "backend"
    /\ last.size /= 0 /\ last.amount /= last.size /\ last.applied

(* C10 as stated: the size trackMemory resolves, charges and returns is     *)
(* never below the requested size.                                          *)
C10_ActualSizeAtLeastRequested ==
    last.op = "trackMemory" => last.value >= last.size

(* C10 as amended: the resolved size is the nominal size when the build has *)
(* no size computation or the size is 0; otherwise it is what je_nallocx    *)
(* reports: a multiple of the size class step, at least the requested size  *)
(* and a multiple of the alignment, when the request is within the largest  *)
(* size class, and 0 beyond it. trackMemory charges exactly this value and  *)
(* returns it.                                                              *)
C10_ActualSizeResolved ==
    last.op = "trackMemory" =>
        LET fits == usize(last.size, last.align) <= LargeMaxClass IN
        /\ (~USE_JEMALLOC \/ last.size = 0) => last.value = last.size
        /\ (USE_JEMALLOC /\ last.size /= 0 /\ fits) =>
                /\ last.value >= last.size
                /\ last.value % Quantum = 0
                /\ last.align /= 0 => last.value % last.align = 0
                /\ last.value < last.size + Quantum + last.align
        /\ (USE_JEMALLOC /\ last.size /= 0 /\ ~fits) => last.value = 0
        /\ last.amount = last.value
        /\ last.delta = last.value
        /\ last.outcome = "return"

(* C10 witness: the jemalloc build charged more than the requested size *)
C10_Witness ==
    /\ last.op = "trackMemory" /\ USE_JEMALLOC
    /\ last.size /= 0 /\ last.value > last.size /\ tracker = last.value

====
